---- MODULE Spec2Model ----
(***************************************************************************)
(* Model of plotting.py: the report functions ebay_plot, plot_profits,     *)
(* median_plotting, mean_plotting, crpyto_comp_plotting, ebay_seller_plot  *)
(* (with pareto_plot) and brand_plot as operations of a caller that runs   *)
(* one report at a time.  Spec runs every report in a process of its own,  *)
(* over the full input sets; Session runs reports one after another in one *)
(* process, where the settings of matplotlib and pandas stay as the        *)
(* reports leave them, over small input sets.                              *)
(*                                                                         *)
(* Numbers.  Prices, MSRP and shipping in the tables are whole currency    *)
(* units.  The MSRP a report is called with, a float that may be a part of *)
(* a unit, and derived amounts are kept in ticks of 1/10000 of a unit, and *)
(* rates (tax, fees, discount) in 1/10000, so that every product of the    *)
(* source is an exact integer.  A pandas float that may be NaN is a record *)
(* [nan, val].  Quotients that stay quotients are pairs num/den.           *)
(***************************************************************************)
EXTENDS Integers, Sequences, FiniteSets, TLC

VARIABLES
    pc,     \* "idle": the caller is between reports; "returned"/"raised": a report ended
    call,   \* the report last called and its arguments
    ret,    \* what that call returned, or the exception it raised
    rc_style,               \* the matplotlib style of the process (plt.style)
    display_max_columns     \* the pandas option 'display.max_columns' of the process

vars == <<pc, call, ret, rc_style, display_max_columns>>

----------------------------------------------------------------------------
(* Bounds of the input tables *)

MaxRows == 2
MaxDate == 2

----------------------------------------------------------------------------
(* Arithmetic helpers *)

Ticks(units) == units * 10000

RECURSIVE SumSeq(_)
SumSeq(s) == IF s = <<>> THEN 0 ELSE Head(s) + SumSeq(Tail(s))

RECURSIVE Insert(_, _)
Insert(x, s) ==
    IF s = <<>> THEN <<x>>
    ELSE IF x <= Head(s) THEN <<x>> \o s
    ELSE <<Head(s)>> \o Insert(x, Tail(s))

RECURSIVE sort_values(_)
sort_values(s) == IF s = <<>> THEN <<>> ELSE Insert(Head(s), sort_values(Tail(s)))

Num(v) == [nan |-> FALSE, val |-> v]
NaN == [nan |-> TRUE, val |-> 0]
isnan(x) == x.nan

(* Series.median() of a column of whole units, in ticks: NaN on an empty  *)
(* series, else the middle value, or the mean of the two middle values.   *)
median(s) ==
    IF s = <<>> THEN NaN
    ELSE LET o == sort_values(s)
             n == Len(o)
         IN  Num((o[(n + 1) \div 2] + o[(n \div 2) + 1]) * 5000)

RECURSIVE Gcd(_, _)
Gcd(a, b) == IF b = 0 THEN a ELSE Gcd(b, a % b)

(* Quotients n/d, d > 0, in lowest terms *)
Rat(n, d) == LET g == Gcd(IF n < 0 THEN -n ELSE n, d) IN <<n \div g, d \div g>>

RatAdd(a, b) ==
    LET g == Gcd(a[2], b[2])
    IN  Rat(a[1] * (b[2] \div g) + b[1] * (a[2] \div g), (a[2] \div g) * b[2])

(* the product of two quotients in lowest terms, in lowest terms *)
RatMul(a, b) ==
    LET g1 == Gcd(IF a[1] < 0 THEN -a[1] ELSE a[1], b[2])
        g2 == Gcd(IF b[1] < 0 THEN -b[1] ELSE b[1], a[2])
    IN  <<(a[1] \div g1) * (b[1] \div g2), (a[2] \div g2) * (b[2] \div g1)>>

(* Python's round(): to the nearest integer, ties to the even one; of a   *)
(* quotient x = n/d >= 0.                                                 *)
round(x) ==
    LET n == x[1]
        d == x[2]
        q == n \div d
        r == n % d
    IN  IF 2 * r < d THEN q
        ELSE IF 2 * r > d THEN q + 1
        ELSE IF q % 2 = 0 THEN q ELSE q + 1

(* Python's int() of a non-negative amount in ticks: truncation *)
int(ticks) == ticks \div 10000

Column(df, c) == [i \in 1..Len(df) |-> df[i][c]]

RECURSIVE SetToSortedSeq(_)
SetToSortedSeq(S) ==
    IF S = {} THEN <<>>
    ELSE LET m == CHOOSE x \in S : \A y \in S : x <= y
         IN  <<m>> \o SetToSortedSeq(S \ {m})

(* A groupby that keeps the keys in order of first appearance (sort=False) *)
groupby_keys_unsorted(df) ==
    LET first(i) == \A j \in 1..(i - 1) : df[j].SoldDate # df[i].SoldDate
        idx == SelectSeq([i \in 1..Len(df) |-> i], first)
    IN  [k \in 1..Len(idx) |-> df[idx[k]].SoldDate]

(* The group keys of df.groupby(['Sold Date']): the distinct dates, sorted *)
groupby_keys(df) == SetToSortedSeq({df[i].SoldDate : i \in 1..Len(df)})

(* A group that takes in the rows of every date *)
group_all(df, d) == df

group(df, d) == SelectSeq(df, LAMBDA r : r.SoldDate = d)

(* groupby(['Sold Date'])[c].sum(), one entry per key in key order *)
groupby_sum(df, c) ==
    LET keys == groupby_keys(df)
    IN  [k \in 1..Len(keys) |-> SumSeq(Column(group(df, keys[k]), c))]

groupby_median(df, c) ==
    LET keys == groupby_keys(df)
    IN  [k \in 1..Len(keys) |-> median(Column(group(df, keys[k]), c)).val]

RECURSIVE seq_min(_)
seq_min(s) ==
    IF Len(s) = 1 THEN s[1]
    ELSE LET m == seq_min(Tail(s)) IN IF s[1] < m THEN s[1] ELSE m

RECURSIVE seq_max(_)
seq_max(s) ==
    IF Len(s) = 1 THEN s[1]
    ELSE LET m == seq_max(Tail(s)) IN IF s[1] > m THEN s[1] ELSE m

(* groupby(['Sold Date'])[c].max() and .min(), in ticks *)
groupby_max(df, c) ==
    LET keys == groupby_keys(df)
    IN  [k \in 1..Len(keys) |-> Ticks(seq_max(Column(group(df, keys[k]), c)))]

groupby_min(df, c) ==
    LET keys == groupby_keys(df)
    IN  [k \in 1..Len(keys) |-> Ticks(seq_min(Column(group(df, keys[k]), c)))]

RECURSIVE cumsum(_)
cumsum(s) ==
    IF s = <<>> THEN <<>>
    ELSE LET front == cumsum(SubSeq(s, 1, Len(s) - 1))
         IN  Append(front, (IF front = <<>> THEN 0 ELSE front[Len(front)]) + s[Len(s)])

----------------------------------------------------------------------------
(* ebay_plot *)

pp_flat_fee == 3000
pp_fee_per == 290
est_ebay_fee == 1000
min_be_ebay_fee == 360
msrp_discount == 500

(* A filter that lets free shipping through *)
positive_shipping_ge(df) == SelectSeq(df, LAMBDA r : r.Shipping >= 0)

(* df_calc.loc[df_calc['Shipping'] > 0] *)
positive_shipping(df) == SelectSeq(df, LAMBDA r : r.Shipping > 0)

(* The median of the strictly positive shipping values, 0 when it is NaN; in ticks *)
estimated_shipping(df) ==
    LET m == median(Column(positive_shipping(df), "Shipping"))
    IN  IF isnan(m) THEN 0 ELSE m.val

(* A guard that lets MSRP 0 through *)
break_even_guard_ge(msrp) == msrp >= 0

(* if msrp > 0: *)
break_even_guard(msrp) == msrp > 0

(* A break-even that leaves the shipping out *)
est_break_even_no_shipping(msrp, tax_rate, shipping) ==
    round(RatAdd(RatMul(Rat(msrp, 10000),
                        Rat(10000 + tax_rate, 10000 - est_ebay_fee - pp_fee_per)),
                 Rat(pp_flat_fee, 10000)))

(* round(msrp * (1 + tax_rate) / (1 - est_ebay_fee - pp_fee_per) + pp_flat_fee *)
(*       + estimated_shipping)                                                 *)
est_break_even(msrp, tax_rate, shipping) ==
    round(RatAdd(RatMul(Rat(msrp, 10000),
                        Rat(10000 + tax_rate, 10000 - est_ebay_fee - pp_fee_per)),
                 Rat(pp_flat_fee + shipping, 10000)))

(* A minimum break-even that leaves the flat fee out *)
min_break_even_no_flat_fee(msrp) ==
    round(RatMul(Rat(msrp, 10000),
                 Rat(10000 - msrp_discount, 10000 - min_be_ebay_fee - pp_fee_per)))

(* round(msrp * (1 - msrp_discount) / (1 - min_be_ebay_fee - pp_fee_per) + pp_flat_fee) *)
min_break_even(msrp) ==
    round(RatAdd(RatMul(Rat(msrp, 10000),
                        Rat(10000 - msrp_discount, 10000 - min_be_ebay_fee - pp_fee_per)),
                 Rat(pp_flat_fee, 10000)))

(* median_prices.rolling(w, min_periods=1).mean(): pairs <<window sum, window length>> *)
rolling_mean(s, w) ==
    [k \in 1..Len(s) |->
        LET lo == IF k - w + 1 < 1 THEN 1 ELSE k - w + 1
        IN  <<SumSeq(SubSeq(s, lo, k)), k - lo + 1>>]

(* sorted([max_date - timedelta(days=x) for x in range(date_diff)]) *)
date_list(max_date, date_diff) ==
    sort_values([x \in 1..date_diff |-> max_date - (x - 1)])

(* Offsets that start at the first observed date: range(0, ...) *)
x_poly_from_zero(max_x_poly, project_date) ==
    [x \in 1..(max_x_poly + project_date) |-> x - 1]

(* range(1, max_x_poly + project_date) *)
x_poly(max_x_poly, project_date) ==
    [x \in 1..(max_x_poly + project_date - 1) |-> x]

(* The trend line of ebay_plot: the dates it is drawn at and the offsets  *)
(* the fitted polynomial is evaluated at.                                 *)
trend(df_calc, e_vars) ==
    LET keys == groupby_keys(df_calc)
        dmin == seq_min(Column(df_calc, "SoldDate"))
        dmax == seq_max(Column(df_calc, "SoldDate"))
    IN  IF e_vars.trend_type \in {"poly", "linear"}
        THEN LET project_date == IF e_vars.trend_type = "linear"
                                 THEN e_vars.trend_param[1] ELSE e_vars.trend_param[2]
                 degree == IF e_vars.trend_type = "linear" THEN 1 ELSE e_vars.trend_param[1]
                 x_orig == [k \in 1..Len(keys) |-> keys[k] - dmin]
                 max_date == dmax + project_date
                 date_diff == (dmax - dmin) + project_date
                 max_x_poly == seq_max(x_orig) - seq_min(x_orig) + 1
             IN  [kind |-> e_vars.trend_type, degree |-> degree, x_orig |-> x_orig,
                  project_date |-> project_date,
                  date_list |-> date_list(max_date, date_diff),
                  x_poly |-> x_poly(max_x_poly, project_date)]
        ELSE IF e_vars.trend_type = "roll"
        THEN [kind |-> "roll",
              med_roll |-> rolling_mean(groupby_median(df_calc, "TotalPrice"),
                                        e_vars.trend_param[1])]
        ELSE [kind |-> "none"]

(* plt.style.use('ggplot'), reached when max(median_prices) did not raise *)
ebay_plot_style(df_calc, style) == IF df_calc = <<>> THEN style ELSE "ggplot"

(* The trend line computed after the image was written *)
ebay_plot_events_late_trend(msrp, df_calc, e_vars) ==
    IF df_calc = <<>>
    THEN <<"groupby", "groupby", "groupby", "sum">>
    ELSE <<"groupby", "groupby", "groupby", "sum", "max", "max", "min", "median", "style.use">>
         \o (IF msrp > 0 THEN <<"median">> ELSE <<>>)
         \o <<"savefig">>
         \o (IF e_vars.trend_type \in {"poly", "linear"} THEN <<"polyfit", "polyval", "polyval">>
             ELSE IF e_vars.trend_type = "roll" THEN <<"rolling">>
             ELSE <<>>)

(* What the call does, in order: the aggregations, the setting of the     *)
(* style, the fit and the writing of the image.                           *)
ebay_plot_events(msrp, df_calc, e_vars) ==
    IF df_calc = <<>>
    THEN <<"groupby", "groupby", "groupby", "sum">>
    ELSE <<"groupby", "groupby", "groupby", "sum", "max", "max", "min", "median", "style.use">>
         \o (IF msrp > 0 THEN <<"median">> ELSE <<>>)
         \o (IF e_vars.trend_type \in {"poly", "linear"} THEN <<"polyfit", "polyval", "polyval">>
             ELSE IF e_vars.trend_type = "roll" THEN <<"rolling">>
             ELSE <<>>)
         \o <<"savefig">>

(* The whole call.  max(median_prices) of an empty series raises          *)
(* ValueError before anything is drawn.                                   *)
ebay_plot(msrp, df_calc, e_vars) ==
    IF df_calc = <<>>
    THEN [status |-> "ValueError", images |-> 0,
          events |-> ebay_plot_events(msrp, df_calc, e_vars)]
    ELSE LET shipping == IF break_even_guard(msrp) THEN estimated_shipping(df_calc) ELSE 0
         IN  [status |-> "ok",
              images |-> 1,
              dates |-> groupby_keys(df_calc),
              median_prices |-> groupby_median(df_calc, "TotalPrice"),
              max_price |-> groupby_max(df_calc, "TotalPrice"),
              min_price |-> groupby_min(df_calc, "TotalPrice"),
              median_price |-> int(median(Column(df_calc, "TotalPrice")).val),
              est_break_even |-> IF break_even_guard(msrp)
                                 THEN est_break_even(msrp, e_vars.tax_rate, shipping) ELSE 0,
              min_break_even |-> IF break_even_guard(msrp) THEN min_break_even(msrp) ELSE 0,
              tot_sold |-> SumSeq(Column(df_calc, "Quantity")),
              estimated_shipping |-> shipping,
              computed |-> IF break_even_guard(msrp)
                           THEN {"estimated_shipping", "est_break_even", "min_break_even"}
                           ELSE {},
              trend |-> trend(df_calc, e_vars),
              events |-> ebay_plot_events(msrp, df_calc, e_vars)]

----------------------------------------------------------------------------
(* plot_profits *)

(* One value of groupby(['Sold Date'])['Total Price'].median() / msrp * 100: *)
(* a float division, so a zero divisor gives inf, or nan for 0/0.            *)
pct_of_msrp(med, msrp) ==
    IF msrp = 0
    THEN IF med = 0 THEN [kind |-> "nan"] ELSE [kind |-> "inf"]
    ELSE [kind |-> "num", q |-> Rat(100 * med, msrp)]

(* A platform fee at the store rate for every record *)
eBay_Profits_store_rate(r, e_vars) == r.TotalPrice * e_vars.store_rate

eBay_Profits(r, e_vars) ==
    r.TotalPrice * e_vars.non_store_rate * (1 - r.Store)
        + r.TotalPrice * e_vars.store_rate * r.Store

PayPal_Profits(r) == r.TotalPrice * 290 + 3000

(* msrp * (1 + tax_rate), in ticks; the MSRPs and tax rates the reports   *)
(* are run on make it a whole number of ticks                             *)
taxed(msrp, tax_rate) == msrp + (msrp * tax_rate) \div 10000

Scalper_Profits(r, msrp, e_vars, shipping) ==
    r.Store * (Ticks(r.TotalPrice)
               - (taxed(msrp, e_vars.tax_rate) + shipping)
               - (r.TotalPrice * e_vars.store_rate)
               - (r.TotalPrice * 290 + 3000))
    + (1 - r.Store) * (Ticks(r.TotalPrice)
                       - (taxed(msrp, e_vars.tax_rate) + shipping)
                       - (r.TotalPrice * e_vars.non_store_rate)
                       - (r.TotalPrice * 290 + 3000))

(* What the call does, in order *)
plot_profits_events ==
    <<"groupby", "median", "groupby", "cumsum", "cumsum", "cumsum", "cumsum", "cumsum",
      "savefig">>

(* The whole call.  The three returned values are .iloc[-1] of the        *)
(* cumulative columns, which raises IndexError on an empty frame, after   *)
(* the image was written.                                                 *)
plot_profits(msrp, df, e_vars) ==
    LET shipping == estimated_shipping(df)
        rows == [i \in 1..Len(df) |->
                    [SoldDate |-> df[i].SoldDate,
                     TotalPrice |-> Ticks(df[i].TotalPrice),
                     Quantity |-> df[i].Quantity,
                     Store |-> df[i].Store,
                     eBayProfits |-> eBay_Profits(df[i], e_vars),
                     PayPalProfits |-> PayPal_Profits(df[i]),
                     ScalperProfits |-> Scalper_Profits(df[i], msrp, e_vars, shipping)]]
        keys == groupby_keys(df)
        meds == groupby_median(df, "TotalPrice")
        CumSales == cumsum(groupby_sum(rows, "TotalPrice"))
        CumQuantity == cumsum(groupby_sum(rows, "Quantity"))
        CumeBay == cumsum(groupby_sum(rows, "eBayProfits"))
        CumPayPal == cumsum(groupby_sum(rows, "PayPalProfits"))
        CumScalper == cumsum(groupby_sum(rows, "ScalperProfits"))
        common == [images |-> 1,
                   estimated_shipping |-> shipping,
                   med_price |-> [k \in 1..Len(keys) |-> pct_of_msrp(meds[k], msrp)],
                   rows |-> rows,
                   SoldDate |-> keys,
                   CumSales |-> CumSales,
                   CumQuantity |-> CumQuantity,
                   CumeBay |-> CumeBay,
                   CumPayPal |-> CumPayPal,
                   CumScalper |-> CumScalper,
                   computed |-> {"div_by_msrp", "estimated_shipping", "profit_split",
                                 "cumulative"},
                   events |-> plot_profits_events]
    IN  IF df = <<>>
        THEN [status |-> "IndexError"] @@ common
        ELSE [status |-> "ok",
              returned |-> <<CumeBay[Len(keys)], CumPayPal[Len(keys)],
                             CumScalper[Len(keys)]>>] @@ common

----------------------------------------------------------------------------
(* pareto_plot and ebay_seller_plot *)

(* pd.concat(dfs) *)
RECURSIVE concat(_)
concat(dfs) == IF dfs = <<>> THEN <<>> ELSE Head(dfs) \o concat(Tail(dfs))

(* pd.to_numeric of the feedback texts that occur *)
to_numeric(s) ==
    CASE s = "0" -> 0
      [] s = "1" -> 1
      [] s = "9" -> 9
      [] s = "10" -> 10
      [] s = "49" -> 49
      [] s = "50" -> 50
      [] s = "99" -> 99
      [] s = "100" -> 100
      [] s = "499" -> 499
      [] s = "500" -> 500
      [] s = "999" -> 999
      [] s = "1000" -> 1000
      [] s = "4999" -> 4999
      [] s = "5000" -> 5000
      [] s = "9999" -> 9999
      [] s = "10000" -> 10000

(* df['Quantity'].sum() *)
Quantity_sum(df) == SumSeq(Column(df, "Quantity"))

zero_fb(df_sell) == Quantity_sum(SelectSeq(df_sell, LAMBDA r : r.SellerFeedback = 0))

no_star(df_sell) ==
    Quantity_sum(SelectSeq(df_sell, LAMBDA r : r.SellerFeedback > 0 /\ r.SellerFeedback < 10))

(* A tier that leaves its lower boundary out *)
yellow_star_gt(df_sell) ==
    Quantity_sum(SelectSeq(df_sell, LAMBDA r : r.SellerFeedback > 10 /\ r.SellerFeedback < 50))

yellow_star(df_sell) ==
    Quantity_sum(SelectSeq(df_sell, LAMBDA r : r.SellerFeedback >= 10 /\ r.SellerFeedback < 50))

blue_star(df_sell) ==
    Quantity_sum(SelectSeq(df_sell, LAMBDA r : r.SellerFeedback >= 50 /\ r.SellerFeedback < 100))

turquoise_star(df_sell) ==
    Quantity_sum(SelectSeq(df_sell, LAMBDA r : r.SellerFeedback >= 100 /\ r.SellerFeedback < 500))

purple_star(df_sell) ==
    Quantity_sum(SelectSeq(df_sell, LAMBDA r : r.SellerFeedback >= 500 /\ r.SellerFeedback < 1000))

red_star(df_sell) ==
    Quantity_sum(SelectSeq(df_sell, LAMBDA r : r.SellerFeedback >= 1000 /\ r.SellerFeedback < 5000))

green_star(df_sell) ==
    Quantity_sum(SelectSeq(df_sell, LAMBDA r : r.SellerFeedback >= 5000 /\ r.SellerFeedback < 10000))

shooting_star(df_sell) == Quantity_sum(SelectSeq(df_sell, LAMBDA r : r.SellerFeedback >= 10000))

(* The 'Quantity Sold' column of df_fb, in the order of 'Star Category' *)
split_data(df_sell) ==
    <<zero_fb(df_sell), no_star(df_sell), yellow_star(df_sell), blue_star(df_sell),
      turquoise_star(df_sell), purple_star(df_sell), red_star(df_sell),
      green_star(df_sell), shooting_star(df_sell)>>

(* df_quant.groupby(['Seller'])['Quantity'].sum().reset_index(): one row  *)
(* per seller, holding the seller's total quantity.                       *)
RECURSIVE seller_totals(_, _)
seller_totals(df_quant, sellers) ==
    IF sellers = {} THEN <<>>
    ELSE LET s == CHOOSE x \in sellers : TRUE
         IN  <<[Seller |-> s,
                Quantity |-> Quantity_sum(SelectSeq(df_quant, LAMBDA r : r.Seller = s))]>>
             \o seller_totals(df_quant, sellers \ {s})

(* The 'Quantity Sold' column of df_fb, in the order of 'Number of Sales' *)
split_data_again(df_quant) ==
    LET g == seller_totals(df_quant, {df_quant[i].Seller : i \in 1..Len(df_quant)})
    IN  <<Quantity_sum(SelectSeq(g, LAMBDA r : r.Quantity = 1)),
          Quantity_sum(SelectSeq(g, LAMBDA r : r.Quantity = 2)),
          Quantity_sum(SelectSeq(g, LAMBDA r : r.Quantity = 3)),
          Quantity_sum(SelectSeq(g, LAMBDA r : r.Quantity = 4)),
          Quantity_sum(SelectSeq(g, LAMBDA r : r.Quantity = 5)),
          Quantity_sum(SelectSeq(g, LAMBDA r : r.Quantity >= 6 /\ r.Quantity < 10)),
          Quantity_sum(SelectSeq(g, LAMBDA r : r.Quantity >= 11 /\ r.Quantity < 20)),
          Quantity_sum(SelectSeq(g, LAMBDA r : r.Quantity >= 21 /\ r.Quantity < 50)),
          Quantity_sum(SelectSeq(g, LAMBDA r : r.Quantity >= 50))>>

(* pareto_plot: weights = df3[y] / df3[y].sum(); cumsum = weights.cumsum(). *)
(* Every weight has the column sum as its denominator, so the running sum   *)
(* is kept as numerator over that denominator; 0/0 is NaN.                  *)
pareto_plot(df, df2, df3) ==
    LET total == SumSeq(df3)
        running == cumsum(df3)
    IN  [k \in 1..Len(df3) |->
            IF total = 0 THEN [nan |-> TRUE, num |-> 0, den |-> 0]
            ELSE [nan |-> FALSE, num |-> running[k], den |-> total]]

(* The whole call.  df_quant[df_sell['Store'] == 1] indexes df_quant by a  *)
(* boolean Series over the rows of df_sell: when df_quant has a row that   *)
(* df_sell lacks (a seller without feedback) the Series cannot be aligned  *)
(* and pandas raises IndexingError, after the first chart was written.     *)
ebay_seller_plot(dfs) ==
    LET df == concat(dfs)
        has_fb == SelectSeq(SelectSeq(df, LAMBDA r : r.Seller # "None"),
                            LAMBDA r : r.SellerFeedback # "None")
        df_sell == [i \in 1..Len(has_fb) |->
                       [has_fb[i] EXCEPT !.SellerFeedback = to_numeric(@)]]
        fb_stores == split_data(SelectSeq(df_sell, LAMBDA r : r.Store = 1))
        fb_nostores == split_data(SelectSeq(df_sell, LAMBDA r : r.Store = 0))
        fb_all == split_data(df_sell)
        df_quant == SelectSeq(df, LAMBDA r : r.Seller # "None")
        n_stores == split_data_again(SelectSeq(df_quant, LAMBDA r : r.Store = 1))
        n_nostores == split_data_again(SelectSeq(df_quant, LAMBDA r : r.Store = 0))
        n_all == split_data_again(df_quant)
        first == [fb_stores |-> fb_stores, fb_nostores |-> fb_nostores, fb_all |-> fb_all,
                  fb_cumsum |-> pareto_plot(fb_nostores, fb_stores, fb_all)]
    IN  IF Len(df_quant) # Len(df_sell)
        THEN [status |-> "IndexingError", images |-> 1,
              events |-> <<"sum", "cumsum", "savefig">>] @@ first
        ELSE [status |-> "ok", images |-> 2,
              events |-> <<"sum", "cumsum", "savefig", "groupby", "sum", "cumsum", "savefig">>,
              n_stores |-> n_stores, n_nostores |-> n_nostores, n_all |-> n_all,
              n_cumsum |-> pareto_plot(n_nostores, n_stores, n_all)] @@ first

----------------------------------------------------------------------------
(* median_plotting, mean_plotting, crpyto_comp_plotting and brand_plot.   *)
(* Of the charts the plotted series are modelled, not colours, labels or  *)
(* axis limits.                                                           *)

(* prep_df of util.py: the rows that fail the record invariants (a total  *)
(* price >= 0, a quantity >= 1) are taken out before a report computes.   *)
prep_df(df) == SelectSeq(df, LAMBDA r : r.TotalPrice >= 0 /\ r.Quantity >= 1)

RECURSIVE Repeat(_, _)
Repeat(s, n) == IF n <= 0 THEN <<>> ELSE s \o Repeat(s, n - 1)

(* series.rolling(roll, min_periods=1).mean() when roll > 0, else the     *)
(* series itself: pairs <<sum, number of terms>>                          *)
rolled(series, roll) ==
    IF roll > 0 THEN rolling_mean(series, roll)
    ELSE [k \in 1..Len(series) |-> <<series[k], 1>>]

(* groupby(['Sold Date'])['Total Price'].mean(): pairs <<sum in ticks, count>> *)
groupby_mean(df, c) ==
    LET keys == groupby_keys(df)
    IN  [k \in 1..Len(keys) |->
            <<Ticks(SumSeq(Column(group(df, keys[k]), c))), Len(group(df, keys[k]))>>]

(* the first frame that prep_df leaves empty, 0 when there is none *)
first_empty(frames) ==
    LET bad == {i \in 1..Len(frames) : frames[i] = <<>>}
    IN  IF bad = {} THEN 0 ELSE CHOOSE i \in bad : \A j \in bad : i <= j

(* what one pass of a loop over a frame does: group-by, rolling average   *)
(* when asked for, running minimum                                        *)
chart_events(roll) ==
    <<"groupby">> \o (IF roll > 0 THEN <<"rolling">> ELSE <<>>) \o <<"min">>

(* The first chart and its image, then the second chart and its image *)
median_plotting_events(n, roll) ==
    Repeat(chart_events(roll), n) \o <<"savefig">>
        \o Repeat(chart_events(roll), n) \o <<"savefig">>

(* The whole call.  df['msrp'].iloc[0] of a frame that prep_df left empty *)
(* raises IndexError, in the first loop, after its group-by.  The second  *)
(* chart is computed from the frames as they were given.                  *)
median_plotting(dfs, roll) ==
    LET frames == [i \in 1..Len(dfs) |-> prep_df(dfs[i])]
        bad == first_empty(frames)
    IN  IF bad > 0
        THEN [status |-> "IndexError", images |-> 0,
              events |-> Repeat(chart_events(roll), bad - 1) \o <<"groupby">>]
        ELSE [status |-> "ok", images |-> 2,
              med_price_scaled |->
                  [i \in 1..Len(dfs) |->
                      [dates |-> groupby_keys(frames[i]),
                       msrp |-> frames[i][1].msrp,
                       values |-> rolled(groupby_median(frames[i], "TotalPrice"), roll)]],
              med_price |->
                  [i \in 1..Len(dfs) |->
                      [dates |-> groupby_keys(dfs[i]),
                       values |-> rolled(groupby_median(dfs[i], "TotalPrice"), roll)]],
              events |-> median_plotting_events(Len(dfs), roll)]

(* one pass of a loop of mean_plotting: mean and standard deviation by    *)
(* date, their rolling forms when asked for, running minimum              *)
mean_chart_events(roll) ==
    <<"groupby", "groupby">> \o (IF roll > 0 THEN <<"rolling", "rolling">> ELSE <<>>)
        \o <<"min">>

(* The whole call, as median_plotting; the standard deviations, which     *)
(* only shade the chart, are not modelled.                                *)
mean_plotting(dfs, roll) ==
    LET frames == [i \in 1..Len(dfs) |-> prep_df(dfs[i])]
        bad == first_empty(frames)
        means(df) ==
            LET m == groupby_mean(df, "TotalPrice")
            IN  IF roll > 0
                THEN [k \in 1..Len(m) |->
                        LET lo == IF k - roll + 1 < 1 THEN 1 ELSE k - roll + 1
                        IN  [terms |-> SubSeq(m, lo, k)]]
                ELSE [k \in 1..Len(m) |-> [terms |-> <<m[k]>>]]
    IN  IF bad > 0
        THEN [status |-> "IndexError", images |-> 0,
              events |-> Repeat(mean_chart_events(roll), bad - 1) \o <<"groupby">>]
        ELSE [status |-> "ok", images |-> 2,
              med_price_scaled |->
                  [i \in 1..Len(dfs) |->
                      [dates |-> groupby_keys(frames[i]),
                       msrp |-> frames[i][1].msrp,
                       values |-> means(frames[i])]],
              med_price |->
                  [i \in 1..Len(dfs) |->
                      [dates |-> groupby_keys(dfs[i]), values |-> means(dfs[i])]],
              events |-> Repeat(mean_chart_events(roll), Len(dfs)) \o <<"savefig">>
                             \o Repeat(mean_chart_events(roll), Len(dfs)) \o <<"savefig">>]

(* datetime(2021, 1, 1), as a day number: day 1 is 2020-12-31 *)
first_day_of_2021 == 2

(* the hash rate of the card, in tenths; the first name found in the item decides *)
hash_rate(item) ==
    CASE item = "RTX 3060 Ti" -> 590
      [] item = "RTX 3060" -> 375
      [] item = "RTX 3070" -> 590
      [] item = "RTX 3080 Ti" -> 640
      [] item = "RTX 3080" -> 1000
      [] item = "RTX 3090" -> 1110
      [] OTHER -> 10

between(df, start_date, end_date) ==
    SelectSeq(df, LAMBDA r : r.SoldDate >= start_date /\ r.SoldDate <= end_date)

(* The lookups of the price feed made after the first chart was drawn *)
crypto_feed_after_chart(n, roll) ==
    Repeat(chart_events(roll), n) \o <<"savefig", "get_crypto_data", "get_crypto_data">>

(* get_crypto_data("ETH/USDT", ...) and get_crypto_data("BTC/USDT", ...), *)
(* then the first chart and its image                                     *)
crypto_feed_before_chart(n, roll) ==
    <<"get_crypto_data", "get_crypto_data">> \o Repeat(chart_events(roll), n) \o <<"savefig">>

(* The whole call.  feed says how the price feed answers: "ok", or it     *)
(* fails on the first or on the second lookup, which ends the call.  A    *)
(* frame with no record between start_date and end_date raises IndexError *)
(* at df['item'].iloc[0]; a frame with no record from 2021 on raises      *)
(* ValueError at min(med_price), in the second chart, which is shown and  *)
(* not written.  The series of the first chart are divided by the prices  *)
(* of the feed, which are not modelled.                                   *)
crpyto_comp_plotting(dfs, start_date, end_date, roll, feed) ==
    LET range_events == Repeat(<<"min", "max">>, Len(dfs))
        frames == [i \in 1..Len(dfs) |-> between(prep_df(dfs[i]), start_date, end_date)]
        bad == first_empty(frames)
        recent == [i \in 1..Len(dfs) |->
                      SelectSeq(dfs[i], LAMBDA r : r.SoldDate >= first_day_of_2021)]
        bad2 == first_empty(recent)
        first == [med_prices |->
                      [i \in 1..Len(dfs) |->
                          [dates |-> groupby_keys(frames[i]),
                           hash_rate |-> hash_rate(frames[i][1].item),
                           values |-> rolled(groupby_median(frames[i], "TotalPrice"), roll)]]]
    IN  IF feed = "eth_fails"
        THEN [status |-> "ExternalFeedFailure", images |-> 0,
              events |-> range_events \o <<"get_crypto_data">>]
        ELSE IF feed = "btc_fails"
        THEN [status |-> "ExternalFeedFailure", images |-> 0,
              events |-> range_events \o <<"get_crypto_data", "get_crypto_data">>]
        ELSE IF bad > 0
        THEN [status |-> "IndexError", images |-> 0,
              events |-> range_events \o <<"get_crypto_data", "get_crypto_data">>
                             \o Repeat(chart_events(roll), bad - 1)]
        ELSE IF bad2 > 0
        THEN [status |-> "ValueError", images |-> 1,
              events |-> range_events \o crypto_feed_before_chart(Len(dfs), roll)
                             \o Repeat(chart_events(roll), bad2 - 1)
                             \o <<"groupby">> \o (IF roll > 0 THEN <<"rolling">> ELSE <<>>)]
                 @@ first
        ELSE [status |-> "ok", images |-> 1,
              med_price |->
                  [i \in 1..Len(dfs) |->
                      [dates |-> groupby_keys(recent[i]),
                       values |-> rolled(groupby_median(recent[i], "TotalPrice"), roll)]],
              events |-> range_events \o crypto_feed_before_chart(Len(dfs), roll)
                             \o Repeat(chart_events(roll), Len(dfs)) \o <<"show">>]
                 @@ first

(* if len(brand_dict[brand]) > 10: the fewest records a brand is drawn for, less one *)
brand_min_rows == 10

(* brand_dict[brand].index.repeat(brand_dict[brand]['Quantity']): every   *)
(* record as many times as its quantity, each then with quantity 1        *)
RECURSIVE repeat(_)
repeat(df) ==
    IF df = <<>> THEN <<>>
    ELSE Repeat(<<[Head(df) EXCEPT !.Quantity = 1]>>, Head(df).Quantity) \o repeat(Tail(df))

(* pd.set_option('display.max_columns', None) *)
brand_plot_display(display) == "None"

(* The whole call.  Total prices are taken as a share of the record's     *)
(* MSRP, in whole percents (the MSRPs of the tables divide 100 * price);  *)
(* the brands with more than 10 records are drawn, from their records of  *)
(* a positive price; a brand left without any raises ValueError at        *)
(* min(med_price), before the image is written.  The medians are in ticks *)
(* of a percent.                                                          *)
brand_plot(dfs, brand_list, roll) ==
    LET frames == [i \in 1..Len(dfs) |-> prep_df(dfs[i])]
        df == [i \in 1..Len(concat(frames)) |->
                  [concat(frames)[i] EXCEPT
                      !.TotalPrice = (@ * 100) \div concat(frames)[i].msrp]]
        of_brand(b) == SelectSeq(df, LAMBDA r : r.Brand = b)
        printed == [i \in 1..Len(dfs) |->
                      Cardinality({b \in 1..Len(brand_list) :
                          \E k \in 1..Len(frames[i]) : frames[i][k].Brand = brand_list[b]})]
        print_events == Repeat(<<"mean", "sum">>, SumSeq(printed))
        drawn == SelectSeq(brand_list, LAMBDA b : Len(of_brand(b)) > brand_min_rows)
        sold(b) == repeat(SelectSeq(of_brand(b), LAMBDA r : r.TotalPrice > 0))
        bad == {k \in 1..Len(drawn) : sold(drawn[k]) = <<>>}
        first_bad == CHOOSE k \in bad : \A j \in bad : k <= j
        one == <<"groupby">> \o (IF roll > 0 THEN <<"rolling">> ELSE <<>>) \o <<"min", "max">>
    IN  IF bad # {}
        THEN [status |-> "ValueError", images |-> 0,
              events |-> <<"set_option">> \o print_events \o Repeat(one, first_bad - 1)
                             \o <<"groupby">> \o (IF roll > 0 THEN <<"rolling">> ELSE <<>>)]
        ELSE [status |-> "ok", images |-> 1,
              brands |-> drawn,
              med_price |->
                  [k \in 1..Len(drawn) |->
                      [dates |-> groupby_keys(sold(drawn[k])),
                       values |-> rolled(groupby_median(sold(drawn[k]), "TotalPrice"), roll)]],
              events |-> <<"set_option">> \o print_events \o Repeat(one, Len(drawn))
                             \o <<"savefig">>]

----------------------------------------------------------------------------
(* The inputs the reports are run on *)

DefaultRow ==
    [SoldDate |-> 1, TotalPrice |-> 150, Shipping |-> 0, Quantity |-> 1, Store |-> 0,
     Seller |-> "a", SellerFeedback |-> "100"]

(* rows that differ in shipping only *)
ShipRows == {[DefaultRow EXCEPT !.Shipping = s] : s \in {0, 10, 20}}

(* rows of every date, with a few combinations of price, quantity and store flag *)
SaleRows ==
    {[DefaultRow EXCEPT !.SoldDate = d, !.TotalPrice = x[1], !.Quantity = x[2],
                        !.Store = x[3], !.Shipping = 10] :
        d \in 1..MaxDate, x \in {<<0, 1, 0>>, <<100, 2, 0>>, <<150, 1, 1>>, <<300, 1, 0>>}}

FeedbackTexts ==
    {"None", "0", "1", "9", "10", "49", "50", "99", "100", "499", "500", "999", "1000",
     "4999", "5000", "9999", "10000"}

(* rows that differ in feedback, store flag and quantity; some without seller *)
FeedbackRows ==
    {[DefaultRow EXCEPT !.SellerFeedback = x[1], !.Store = x[2], !.Quantity = x[3]] :
        x \in FeedbackTexts \X {0, 1} \X {1, 2}}
    \cup {[DefaultRow EXCEPT !.Seller = "None", !.SellerFeedback = x[1], !.Store = x[2]] :
        x \in {"None", "0"} \X {0, 1}}

(* rows that differ in seller, quantity and store flag *)
SalesCountRows ==
    {[DefaultRow EXCEPT !.Seller = x[1], !.Quantity = x[2], !.Store = x[3]] :
        x \in {"a", "b"} \X {1, 2, 3, 4, 5, 6, 9, 10, 11, 19, 20, 21, 49, 50} \X {0, 1}}
    \cup {[DefaultRow EXCEPT !.Seller = "None", !.Store = st] : st \in {0, 1}}

(* the rows that fill a seller table up *)
MoreSellerRows ==
    {[DefaultRow EXCEPT !.Seller = x[1], !.SellerFeedback = x[2], !.Quantity = x[3],
                        !.Store = x[4]] :
        x \in {<<"a", "0", 1, 0>>, <<"b", "10", 2, 1>>, <<"a", "10000", 10, 0>>}}

(* rows of two dates and three prices *)
PriceRows ==
    {[DefaultRow EXCEPT !.SoldDate = d, !.TotalPrice = p] : d \in {1, 2}, p \in {0, 100, 300}}

Tables(Rows, n) == UNION {[1..k -> Rows] : k \in 0..n}

PriceTables == Tables(PriceRows, MaxRows + 1)

SaleTables == Tables(ShipRows, MaxRows + 1) \cup Tables(SaleRows, MaxRows)

(* seller tables: empty, or one row of a full row set and then up to      *)
(* MaxRows - 1 of the filling rows                                        *)
SellerTables ==
    {<<>>} \cup {<<r>> \o t : r \in FeedbackRows \cup SalesCountRows,
                              t \in Tables(MoreSellerRows, MaxRows - 1)}

(* an MSRP of 0 (none given) and of 100 units *)
Msrps == {0, Ticks(100)}

(* MSRPs of 0.16 and 0.20 of a unit *)
SmallMsrps == {1600, 2000}

(* rows with the columns 'msrp', 'item' and 'Brand' *)
ItemRows ==
    {[SoldDate |-> d, TotalPrice |-> x[1], Shipping |-> 0, Quantity |-> 1, Store |-> 0,
      Seller |-> "a", SellerFeedback |-> "100", msrp |-> 100, item |-> x[2],
      Brand |-> "EVGA"] :
        d \in 1..MaxDate, x \in {<<100, "RTX 3060 Ti">>, <<300, "RTX 3060">>}}

ItemTables == Tables(ItemRows, MaxRows)

(* one frame, or the frame and another of one record *)
ItemFrames ==
    {<<t>> : t \in ItemTables}
    \cup {<<t, <<CHOOSE r \in ItemRows : r.SoldDate = 1 /\ r.TotalPrice = 300>>>> :
             t \in ItemTables}

Rolls == {0, 2}

(* how the price feed answers the two lookups of a call *)
Feeds == {"ok", "eth_fails", "btc_fails"}

DateRanges == {<<1, MaxDate>>, <<2, MaxDate>>}

brand_list == <<"EVGA", "MSI">>

BrandRows ==
    {[SoldDate |-> x[1], TotalPrice |-> x[2], Shipping |-> 0, Quantity |-> x[3], Store |-> 0,
      Seller |-> "a", SellerFeedback |-> "100", msrp |-> 100, item |-> "RTX 3060",
      Brand |-> x[4]] :
        x \in {<<1, 150, 1, "EVGA">>, <<2, 0, 1, "EVGA">>, <<2, 300, 2, "EVGA">>,
               <<1, 300, 2, "MSI">>}}

(* at most MaxRows records, alone or after brand_min_rows copies of one record *)
BrandTables ==
    {Repeat(<<r>>, n) \o t :
        r \in BrandRows, n \in {0, brand_min_rows}, t \in Tables(BrandRows, MaxRows)}

EVars ==
    {[tax_rate |-> 625, store_rate |-> 400, non_store_rate |-> 1000,
      trend_type |-> "linear", trend_param |-> <<1>>],
     [tax_rate |-> 0, store_rate |-> 1000, non_store_rate |-> 400,
      trend_type |-> "poly", trend_param |-> <<2, 0>>],
     [tax_rate |-> 625, store_rate |-> 400, non_store_rate |-> 1000,
      trend_type |-> "roll", trend_param |-> <<2>>],
     [tax_rate |-> 0, store_rate |-> 400, non_store_rate |-> 1000,
      trend_type |-> "none", trend_param |-> <<>>]}

(* the arguments ebay_plot is called with *)
EbayArgs ==
    (Msrps \X SaleTables \X EVars)
    \cup ({Ticks(100)} \X PriceTables \X {e \in EVars : e.trend_type \in {"linear", "roll"}})
    \cup (SmallMsrps \X Tables(ShipRows, MaxRows) \X EVars)

(* the arguments plot_profits is called with; it reads no trend *)
ProfitArgs == Msrps \X SaleTables \X {e \in EVars : e.trend_type \in {"linear", "poly"}}

MedianArgs == ItemFrames \X Rolls

CryptoArgs == {<<t>> : t \in ItemTables} \X DateRanges \X Rolls \X Feeds

BrandArgs == {<<t>> : t \in BrandTables} \X Rolls

(* the arguments of the reports of a session *)
SessionTable == <<[DefaultRow EXCEPT !.Shipping = 10]>>

SessionItemTable == <<CHOOSE r \in ItemRows : r.SoldDate = 2 /\ r.TotalPrice = 300>>

SessionTables == {<<>>, SessionTable, SessionTable \o SessionTable}

SessionEbayArgs == Msrps \X SessionTables \X {e \in EVars : e.trend_type = "linear"}

SessionProfitArgs == {Ticks(100)} \X SessionTables \X {e \in EVars : e.trend_type = "linear"}

SessionSellerTables == SessionTables

SessionMedianArgs == {<<<<>>>>, <<SessionItemTable>>} \X Rolls

SessionCryptoArgs ==
    {<<<<>>>>, <<SessionItemTable>>} \X {<<1, MaxDate>>} \X Rolls \X Feeds

SessionBrandArgs ==
    {<<SessionItemTable>>, <<Repeat(SessionItemTable, brand_min_rows + 1)>>} \X Rolls

----------------------------------------------------------------------------
(* The caller: one report at a time *)

NoCall == [fn |-> "none"]

Init ==
    /\ pc = "idle"
    /\ call = NoCall
    /\ ret = [status |-> "none"]
    /\ rc_style = "default"
    /\ display_max_columns = "default"

Ended(r) == IF r.status = "ok" THEN "returned" ELSE "raised"

(* A report that changes no setting: its charts are drawn in the style of *)
(* the process.                                                           *)
Report(c, r) ==
    /\ call' = c
    /\ ret' = r @@ [style |-> rc_style]
    /\ pc' = Ended(r)
    /\ UNCHANGED <<rc_style, display_max_columns>>

EbayPlotOn(Args) ==
    /\ pc = "idle"
    /\ \E args \in Args :
          LET msrp == args[1]
              df == args[2]
              e_vars == args[3]
          IN  /\ call' = [fn |-> "ebay_plot", msrp |-> msrp, df |-> df, e_vars |-> e_vars]
              /\ ret' = ebay_plot(msrp, df, e_vars)
                            @@ [style |-> ebay_plot_style(df, rc_style)]
              /\ pc' = Ended(ebay_plot(msrp, df, e_vars))
              /\ rc_style' = ebay_plot_style(df, rc_style)
              /\ UNCHANGED display_max_columns

PlotProfitsOn(Args) ==
    /\ pc = "idle"
    /\ \E args \in Args :
          Report([fn |-> "plot_profits", msrp |-> args[1], df |-> args[2], e_vars |-> args[3]],
                 plot_profits(args[1], args[2], args[3]))

EbaySellerPlotOn(Args) ==
    /\ pc = "idle"
    /\ \E df \in Args :
          Report([fn |-> "ebay_seller_plot", dfs |-> <<df>>], ebay_seller_plot(<<df>>))

MedianPlottingOn(Args) ==
    /\ pc = "idle"
    /\ \E args \in Args :
          Report([fn |-> "median_plotting", dfs |-> args[1], roll |-> args[2]],
                 median_plotting(args[1], args[2]))

MeanPlottingOn(Args) ==
    /\ pc = "idle"
    /\ \E args \in Args :
          Report([fn |-> "mean_plotting", dfs |-> args[1], roll |-> args[2]],
                 mean_plotting(args[1], args[2]))

CrpytoCompPlottingOn(Args) ==
    /\ pc = "idle"
    /\ \E args \in Args :
          Report([fn |-> "crpyto_comp_plotting", dfs |-> args[1], start_date |-> args[2][1],
                  end_date |-> args[2][2], roll |-> args[3], feed |-> args[4]],
                 crpyto_comp_plotting(args[1], args[2][1], args[2][2], args[3], args[4]))

BrandPlotOn(Args) ==
    /\ pc = "idle"
    /\ \E args \in Args :
          /\ call' = [fn |-> "brand_plot", dfs |-> args[1], roll |-> args[2]]
          /\ ret' = brand_plot(args[1], brand_list, args[2]) @@ [style |-> rc_style]
          /\ pc' = Ended(brand_plot(args[1], brand_list, args[2]))
          /\ display_max_columns' = brand_plot_display(display_max_columns)
          /\ UNCHANGED rc_style

EbayPlot == EbayPlotOn(EbayArgs)
PlotProfits == PlotProfitsOn(ProfitArgs)
EbaySellerPlot == EbaySellerPlotOn(SellerTables)
MedianPlotting == MedianPlottingOn(MedianArgs)
MeanPlotting == MeanPlottingOn(MedianArgs)
CrpytoCompPlotting == CrpytoCompPlottingOn(CryptoArgs)
BrandPlot == BrandPlotOn(BrandArgs)

(* The process ends with the report; the next report is run by a new      *)
(* process, with the settings a process starts with.                      *)
Restart ==
    /\ pc # "idle"
    /\ pc' = "idle"
    /\ call' = NoCall
    /\ ret' = [status |-> "none"]
    /\ rc_style' = "default"
    /\ display_max_columns' = "default"

Next ==
    \/ EbayPlot \/ PlotProfits \/ EbaySellerPlot \/ MedianPlotting \/ MeanPlotting
    \/ CrpytoCompPlotting \/ BrandPlot \/ Restart

Spec == Init /\ [][Next]_vars

(* The reports of a session, run in one process *)
SessionEbayPlot == EbayPlotOn(SessionEbayArgs)
SessionPlotProfits == PlotProfitsOn(SessionProfitArgs)
SessionEbaySellerPlot == EbaySellerPlotOn(SessionSellerTables)
SessionMedianPlotting == MedianPlottingOn(SessionMedianArgs)
SessionMeanPlotting == MeanPlottingOn(SessionMedianArgs)
SessionCrpytoCompPlotting == CrpytoCompPlottingOn(SessionCryptoArgs)
SessionBrandPlot == BrandPlotOn(SessionBrandArgs)

(* The caller takes the result, or the exception, and goes on: the        *)
(* settings stay as the report left them.                                 *)
Continue ==
    /\ pc # "idle"
    /\ pc' = "idle"
    /\ call' = NoCall
    /\ ret' = [status |-> "none"]
    /\ UNCHANGED <<rc_style, display_max_columns>>

SessionNext ==
    \/ SessionEbayPlot \/ SessionPlotProfits \/ SessionEbaySellerPlot
    \/ SessionMedianPlotting \/ SessionMeanPlotting \/ SessionCrpytoCompPlotting
    \/ SessionBrandPlot \/ Continue

Session == Init /\ [][SessionNext]_vars

----------------------------------------------------------------------------
(* Vocabulary of the properties *)

(* the sum of the values vals[i], i in I *)
RECURSIVE SumOver(_, _)
SumOver(vals, I) ==
    IF I = {} THEN 0
    ELSE LET i == CHOOSE x \in I : TRUE
         IN  vals[i] + SumOver(vals, I \ {i})

ColumnOf(df, c) == [i \in 1..Len(df) |-> df[i][c]]

QuantityOf(df, I) == SumOver(ColumnOf(df, "Quantity"), I)

(* v is the k-th smallest of the values vals[i], i in I *)
IsKth(vals, I, v, k) ==
    /\ Cardinality({i \in I : vals[i] < v}) < k
    /\ k <= Cardinality({i \in I : vals[i] <= v})

(* twice the statistical median of the values vals[i], i in I, I not empty *)
TwiceMedian(vals, I) ==
    LET n == Cardinality(I)
        V == {vals[i] : i \in I}
        lo == CHOOSE v \in V : IsKth(vals, I, v, (n + 1) \div 2)
        hi == CHOOSE v \in V : IsKth(vals, I, v, (n \div 2) + 1)
    IN  lo + hi

NonDecreasing(s) == \A k \in 1..(Len(s) - 1) : s[k] <= s[k + 1]

HasSeller(r) == r.Seller # "None"
HasFeedback(r) == r.Seller # "None" /\ r.SellerFeedback # "None"

(* the nine feedback tiers: tier k is [FeedbackTiers[k], FeedbackTiers[k+1]) *)
FeedbackTiers == <<0, 1, 10, 50, 100, 500, 1000, 5000, 10000>>

InFeedbackTier(score, k) ==
    /\ score >= FeedbackTiers[k]
    /\ k < Len(FeedbackTiers) => score < FeedbackTiers[k + 1]

(* the three series of a breakdown: all rows, store rows, non-store rows *)
Series == {"all", "stores", "nostores"}
InSeries(r, x) == x = "all" \/ (x = "stores" /\ r.Store = 1) \/ (x = "nostores" /\ r.Store = 0)

----------------------------------------------------------------------------
(* C1: in the feedback breakdown of ebay_seller_plot every record with a   *)
(* seller and a feedback score is counted in exactly one of the nine       *)
(* tiers: each tier holds the quantity of the records whose score lies in  *)
(* its interval, and the nine tiers sum to the quantity of those records,  *)
(* in the all, store and non-store series alike.                           *)
C1_FeedbackTiersExhaustive ==
    call.fn = "ebay_seller_plot" =>
        LET df == concat(call.dfs)
            tiers(x) == CASE x = "all" -> ret.fb_all
                          [] x = "stores" -> ret.fb_stores
                          [] x = "nostores" -> ret.fb_nostores
        IN  \A x \in Series :
              LET I == {i \in 1..Len(df) : HasFeedback(df[i]) /\ InSeries(df[i], x)}
              IN  /\ Len(tiers(x)) = Len(FeedbackTiers)
                  /\ SumSeq(tiers(x)) = QuantityOf(df, I)
                  /\ \A k \in 1..Len(FeedbackTiers) :
                        tiers(x)[k] =
                            QuantityOf(df, {i \in I :
                                InFeedbackTier(to_numeric(df[i].SellerFeedback), k)})
                  /\ \A i \in I :
                        Cardinality({k \in 1..Len(FeedbackTiers) :
                            InFeedbackTier(to_numeric(df[i].SellerFeedback), k)}) = 1

(* two records on the two sides of the boundary 10 are each counted *)
C1_Witness ==
    /\ call.fn = "ebay_seller_plot"
    /\ ret.fb_all[2] > 0
    /\ ret.fb_all[3] > 0
    /\ \E i \in 1..Len(concat(call.dfs)) : concat(call.dfs)[i].SellerFeedback = "10"

(* C2, as specified: the nine sales-count tiers are exhaustive over the       *)
(* sellers present: in every series they sum to the quantity of the        *)
(* records that have a seller.                                             *)
C2_SalesTiersExhaustive ==
    (call.fn = "ebay_seller_plot" /\ ret.status = "ok") =>
        LET df == concat(call.dfs)
            tiers(x) == CASE x = "all" -> ret.n_all
                          [] x = "stores" -> ret.n_stores
                          [] x = "nostores" -> ret.n_nostores
        IN  \A x \in Series :
              SumSeq(tiers(x)) =
                  QuantityOf(df, {i \in 1..Len(df) : HasSeller(df[i]) /\ InSeries(df[i], x)})

(* C3, as specified: in each chart of pareto_plot whose tiers do not sum to   *)
(* zero, the k-th cumulative share is the sum of the first k tiers over    *)
(* the total quantity of the records of that breakdown, the shares are     *)
(* non-decreasing and the last one is 1.                                   *)
ParetoShare(tiers, shares, total) ==
    SumSeq(tiers) # 0 =>
        /\ \A k \in 1..Len(tiers) :
              /\ ~shares[k].nan
              /\ shares[k].num * total = SumSeq(SubSeq(tiers, 1, k)) * shares[k].den
        /\ NonDecreasing([k \in 1..Len(shares) |-> shares[k].num])
        /\ shares[Len(shares)].num = shares[Len(shares)].den

C3_FeedbackShare ==
    call.fn = "ebay_seller_plot" =>
        LET df == concat(call.dfs)
        IN  ParetoShare(ret.fb_all, ret.fb_cumsum, QuantityOf(df, {i \in 1..Len(df) : HasFeedback(df[i])}))

C3_ParetoCumulativeShare ==
    /\ C3_FeedbackShare
    /\ (call.fn = "ebay_seller_plot" /\ ret.status = "ok") =>
          LET df == concat(call.dfs)
          IN  ParetoShare(ret.n_all, ret.n_cumsum, QuantityOf(df, {i \in 1..Len(df) : HasSeller(df[i])}))

(* C4: in plot_profits the cumulative series have one entry per distinct  *)
(* sold date, in ascending date order; each is the running sum over the    *)
(* records sold up to that date; 'Cum Sales' and 'Cum Quantity' never      *)
(* decrease from one date to the next.                                     *)
C4_CumulativeMonotone ==
    call.fn = "plot_profits" =>
        LET df == call.df
            dates == {df[i].SoldDate : i \in 1..Len(df)}
            n == Cardinality(dates)
            upto(k) == {i \in 1..Len(df) : df[i].SoldDate <= ret.SoldDate[k]}
        IN  /\ Len(ret.SoldDate) = n
            /\ {ret.SoldDate[k] : k \in 1..n} = dates
            /\ \A k \in 1..(n - 1) : ret.SoldDate[k] < ret.SoldDate[k + 1]
            /\ Len(ret.CumSales) = n /\ Len(ret.CumQuantity) = n /\ Len(ret.CumScalper) = n
            /\ \A k \in 1..n :
                  /\ ret.CumSales[k] =
                        SumOver([i \in 1..Len(df) |-> Ticks(df[i].TotalPrice)], upto(k))
                  /\ ret.CumQuantity[k] = QuantityOf(df, upto(k))
                  /\ ret.CumScalper[k] =
                        SumOver([i \in 1..Len(df) |-> ret.rows[i].ScalperProfits], upto(k))
            /\ NonDecreasing(ret.CumSales)
            /\ NonDecreasing(ret.CumQuantity)

(* records given latest date first; sales grow while the seller's profit falls *)
C4_Witness ==
    /\ call.fn = "plot_profits"
    /\ Len(call.df) = 2
    /\ call.df[1].SoldDate > call.df[2].SoldDate
    /\ Len(ret.CumSales) = 2
    /\ ret.CumSales[1] < ret.CumSales[2]
    /\ ret.CumQuantity[1] < ret.CumQuantity[2]
    /\ ret.CumScalper[2] < ret.CumScalper[1]

(* C5, as specified: ebay_plot and plot_profits on an empty record set end    *)
(* normally with the defaults: zero break-even, zero shipping, zero        *)
(* totals.                                                                 *)
C5_EmptyInputDefaults ==
    (call.fn \in {"ebay_plot", "plot_profits"} /\ call.df = <<>>) =>
        /\ pc = "returned"
        /\ ret.status = "ok"
        /\ ret.estimated_shipping = 0
        /\ call.fn = "ebay_plot" =>
              /\ ret.median_price = 0
              /\ ret.est_break_even = 0
              /\ ret.min_break_even = 0
              /\ ret.tot_sold = 0
        /\ call.fn = "plot_profits" => ret.returned = <<0, 0, 0>>

(* C6: ebay_plot with MSRP = 0 on a record set that is not empty returns   *)
(* zero for both break-even thresholds and for the estimated shipping,     *)
(* computes none of them, and still returns the overall median price and   *)
(* the total quantity sold.                                                *)
C6_ZeroMsrpSkipsBreakEven ==
    (call.fn = "ebay_plot" /\ call.msrp = 0 /\ call.df # <<>>) =>
        /\ pc = "returned"
        /\ ret.est_break_even = 0
        /\ ret.min_break_even = 0
        /\ ret.estimated_shipping = 0
        /\ ret.computed = {}
        /\ ret.median_price =
              TwiceMedian(ColumnOf(call.df, "TotalPrice"), 1..Len(call.df)) \div 2
        /\ ret.tot_sold = QuantityOf(call.df, 1..Len(call.df))

(* the records have positive shipping and a positive median price *)
C6_Witness ==
    /\ call.fn = "ebay_plot"
    /\ ret.status = "ok"
    /\ call.msrp = 0
    /\ \E i \in 1..Len(call.df) : call.df[i].Shipping > 0
    /\ ret.median_price > 0
    /\ ret.tot_sold > 1
    /\ ret.estimated_shipping = 0

(* C7, as specified: plot_profits with MSRP = 0 skips the profit split and    *)
(* its cumulative sums and divides nothing by MSRP.                        *)
C7_ZeroMsrpSkipsProfitSplit ==
    (call.fn = "plot_profits" /\ call.msrp = 0) =>
        /\ ret.computed \cap {"div_by_msrp", "profit_split", "cumulative"} = {}
        /\ \A k \in 1..Len(ret.med_price) : ret.med_price[k].kind = "num"

(* C8: the profit split of every record of plot_profits: the platform fee  *)
(* at the store or the non-store rate by the record's Store flag, the      *)
(* payment fee 2.9% + 0.30, and the seller's profit what is left of the    *)
(* price after the cost MSRP*(1+tax) + estimated shipping and both fees.   *)
C8_ProfitSplit ==
    call.fn = "plot_profits" =>
        \A i \in 1..Len(call.df) :
            LET r == call.df[i]
                out == ret.rows[i]
                platform == IF r.Store = 1 THEN r.TotalPrice * call.e_vars.store_rate
                            ELSE r.TotalPrice * call.e_vars.non_store_rate
                payment == r.TotalPrice * 290 + 3000
                tax == Ticks(r.TotalPrice) - out.ScalperProfits - platform - payment
                           - ret.estimated_shipping - call.msrp
            IN  /\ r.Store \in {0, 1}
                /\ out.eBayProfits = platform
                /\ out.PayPalProfits = payment
                /\ tax * 10000 = call.msrp * call.e_vars.tax_rate

(* a store record and a non-store record, both sold above cost *)
C8_Witness ==
    /\ call.fn = "plot_profits"
    /\ call.msrp > 0
    /\ call.e_vars.store_rate # call.e_vars.non_store_rate
    /\ \E i, j \in 1..Len(call.df) :
          /\ call.df[i].Store = 1 /\ call.df[j].Store = 0
          /\ ret.rows[i].ScalperProfits > 0 /\ ret.rows[j].ScalperProfits > 0
          /\ ret.rows[i].eBayProfits # ret.rows[j].eBayProfits

(* C9: with MSRP > 0 the estimated break-even of ebay_plot is the integer  *)
(* nearest to MSRP*(1+tax)/(1 - 0.1 - 0.029) + 0.30 + estimated shipping   *)
(* (the even one on a tie); for MSRP 100, tax 0.0625, shipping 15 it is    *)
(* 137.  The exact value is the quotient x; the distance to it is taken    *)
(* over its denominator.                                                   *)
C9_EstBreakEven ==
    (call.fn = "ebay_plot" /\ call.msrp > 0 /\ ret.status = "ok") =>
        LET rate == 10000 - 1000 - 290
            x == RatAdd(RatMul(Rat(call.msrp, 10000), Rat(10000 + call.e_vars.tax_rate, rate)),
                        Rat(3000 + ret.estimated_shipping, 10000))
            diff == ret.est_break_even * x[2] - x[1]
            dist == IF diff < 0 THEN -diff ELSE diff
        IN  /\ 2 * dist <= x[2]
            /\ 2 * dist = x[2] => ret.est_break_even % 2 = 0
            /\ (call.msrp = Ticks(100) /\ call.e_vars.tax_rate = 625
                    /\ ret.estimated_shipping = Ticks(15)) => ret.est_break_even = 137

C9_Witness ==
    /\ call.fn = "ebay_plot"
    /\ ret.status = "ok"
    /\ call.msrp = Ticks(100)
    /\ call.e_vars.tax_rate = 625
    /\ ret.estimated_shipping = Ticks(15)
    /\ ret.est_break_even = 137

(* C10: the estimated shipping of ebay_plot (MSRP > 0) and of plot_profits *)
(* is the median of the shipping values of the records whose shipping is   *)
(* strictly positive, and 0 when there is none, which by itself ends no    *)
(* call in an error.                                                       *)
C10_EstimatedShipping ==
    ((call.fn = "ebay_plot" /\ call.msrp > 0 /\ ret.status = "ok")
        \/ call.fn = "plot_profits") =>
        LET I == {i \in 1..Len(call.df) : call.df[i].Shipping > 0}
        IN  /\ I = {} => ret.estimated_shipping = 0
            /\ (I = {} /\ call.df # <<>>) => pc = "returned"
            /\ I # {} => ret.estimated_shipping =
                            TwiceMedian(ColumnOf(call.df, "Shipping"), I) * 5000

(* three records, one of them shipped free: the median is of the other two *)
C10_Witness ==
    /\ call.fn \in {"ebay_plot", "plot_profits"}
    /\ call.msrp > 0
    /\ Len(call.df) = 3
    /\ \E i \in 1..3 : call.df[i].Shipping = 0
    /\ \E i \in 1..3 : call.df[i].Shipping = 10
    /\ \E i \in 1..3 : call.df[i].Shipping = 20
    /\ ret.estimated_shipping = Ticks(15)

(* no record has positive shipping and the call returns *)
C10_WitnessNone ==
    /\ call.fn = "plot_profits"
    /\ call.df # <<>>
    /\ \A i \in 1..Len(call.df) : call.df[i].Shipping = 0
    /\ ret.estimated_shipping = 0
    /\ pc = "returned"

(* C11: for a record set that is not empty ebay_plot has one median, one   *)
(* highest and one lowest total price per distinct sold date, the dates in *)
(* ascending order, each taken over exactly the records of its date.       *)
C11_PerDateAggregates ==
    (call.fn = "ebay_plot" /\ call.df # <<>>) =>
        LET df == call.df
            dates == {df[i].SoldDate : i \in 1..Len(df)}
            n == Cardinality(dates)
            price == ColumnOf(df, "TotalPrice")
            on(k) == {i \in 1..Len(df) : df[i].SoldDate = ret.dates[k]}
        IN  /\ ret.status = "ok"
            /\ Len(ret.dates) = n
            /\ {ret.dates[k] : k \in 1..n} = dates
            /\ \A k \in 1..(n - 1) : ret.dates[k] < ret.dates[k + 1]
            /\ Len(ret.median_prices) = n /\ Len(ret.max_price) = n /\ Len(ret.min_price) = n
            /\ \A k \in 1..n :
                  /\ ret.median_prices[k] = TwiceMedian(price, on(k)) * 5000
                  /\ \E i \in on(k) : ret.max_price[k] = Ticks(price[i])
                  /\ \A i \in on(k) : Ticks(price[i]) <= ret.max_price[k]
                  /\ \E i \in on(k) : ret.min_price[k] = Ticks(price[i])
                  /\ \A i \in on(k) : ret.min_price[k] <= Ticks(price[i])

(* three records, the later date first and last, with a record of the      *)
(* earlier date between them; the later date's median is neither its       *)
(* highest nor its lowest price                                            *)
C11_Witness ==
    /\ call.fn = "ebay_plot"
    /\ ret.status = "ok"
    /\ Len(call.df) = 3
    /\ call.df[1].SoldDate = 2 /\ call.df[2].SoldDate = 1 /\ call.df[3].SoldDate = 2
    /\ ret.dates = <<1, 2>>
    /\ ret.min_price[2] < ret.median_prices[2]
    /\ ret.median_prices[2] < ret.max_price[2]
    /\ ret.median_prices[1] # ret.median_prices[2]

(* C12, as specified: a linear or polynomial trend of ebay_plot with       *)
(* horizon p has a value for every day from the first observed sold date   *)
(* to p days after the last one, and for no other day; a rolling trend has *)
(* one value per observed date.                                            *)
C12_TrendCoverage ==
    (call.fn = "ebay_plot" /\ ret.status = "ok") =>
        LET df == call.df
            dates == {df[i].SoldDate : i \in 1..Len(df)}
            first == CHOOSE d \in dates : \A e \in dates : d <= e
            last == CHOOSE d \in dates : \A e \in dates : e <= d
            p == IF call.e_vars.trend_type = "linear" THEN call.e_vars.trend_param[1]
                 ELSE call.e_vars.trend_param[2]
        IN  /\ call.e_vars.trend_type \in {"linear", "poly"} =>
                  /\ {ret.trend.date_list[k] : k \in 1..Len(ret.trend.date_list)}
                        = first..(last + p)
                  /\ Len(ret.trend.date_list) = last + p - first + 1
                  /\ Len(ret.trend.x_poly) = Len(ret.trend.date_list)
            /\ call.e_vars.trend_type = "roll" =>
                  /\ Len(ret.trend.med_roll) = Cardinality(dates)
                  /\ {ret.dates[k] : k \in 1..Len(ret.dates)} = dates

(* C17: the dates of the fitted line of ebay_plot and the offsets the fit  *)
(* is evaluated at are as many, and the k-th date is the first observed    *)
(* date plus the k-th offset, on the scale of the fit, where the first     *)
(* observed date has offset 0.                                             *)
C17_OffsetsMatchDates ==
    (call.fn = "ebay_plot" /\ ret.status = "ok"
        /\ call.e_vars.trend_type \in {"linear", "poly"}) =>
        LET df == call.df
            dates == {df[i].SoldDate : i \in 1..Len(df)}
            first == CHOOSE d \in dates : \A e \in dates : d <= e
        IN  /\ Len(ret.trend.date_list) = Len(ret.trend.x_poly)
            /\ \A k \in 1..Len(ret.trend.date_list) :
                  ret.trend.date_list[k] = first + ret.trend.x_poly[k]
            /\ \A k \in 1..Len(ret.dates) : ret.trend.x_orig[k] = ret.dates[k] - first
            /\ ret.trend.x_orig[1] = 0

(* records of two dates and a horizon of one day: two fitted values *)
C17_Witness ==
    /\ call.fn = "ebay_plot"
    /\ ret.status = "ok"
    /\ call.e_vars.trend_type = "linear"
    /\ call.e_vars.trend_param[1] = 1
    /\ Len(ret.dates) = 2
    /\ Len(ret.trend.date_list) = 2
    /\ ret.trend.x_poly = <<1, 2>>

(* C14, as specified: in ebay_seller_plot a record without seller or        *)
(* without feedback is in no feedback tier of any series; a record without *)
(* seller is in no sales-count tier; a record with a seller and without    *)
(* feedback is still counted in the sales-count breakdown: the call        *)
(* returns, and its seller's total is in a tier of the all series and of   *)
(* the store or non-store series of its Store flag.                        *)
C14_ExclusionPerBreakdown ==
    call.fn = "ebay_seller_plot" =>
        LET df == concat(call.dfs)
            rows == 1..Len(df)
            fb(x) == CASE x = "all" -> ret.fb_all
                       [] x = "stores" -> ret.fb_stores
                       [] x = "nostores" -> ret.fb_nostores
            n(x) == CASE x = "all" -> ret.n_all
                      [] x = "stores" -> ret.n_stores
                      [] x = "nostores" -> ret.n_nostores
            total(s, x) == QuantityOf(df, {j \in rows : df[j].Seller = s /\ InSeries(df[j], x)})
        IN  /\ \A x \in Series :
                  SumSeq(fb(x)) =
                      QuantityOf(df, {i \in rows : HasFeedback(df[i]) /\ InSeries(df[i], x)})
            /\ ret.status = "ok" =>
                  \A x \in Series :
                      SumSeq(n(x)) <=
                          QuantityOf(df, {i \in rows : HasSeller(df[i]) /\ InSeries(df[i], x)})
            /\ \A i \in rows :
                  (HasSeller(df[i]) /\ ~HasFeedback(df[i])) =>
                      /\ ret.status = "ok"
                      /\ \A x \in Series :
                            InSeries(df[i], x) =>
                                \E k \in 1..Len(n(x)) : n(x)[k] = total(df[i].Seller, x)

(* Vocabulary of the order of events within a call *)

Aggregations ==
    {"groupby", "rolling", "min", "max", "sum", "mean", "median", "cumsum", "polyfit", "polyval"}

Positions(events, names) == {i \in 1..Len(events) : events[i] \in names}

(* every event of the first set comes before every event of the second *)
AllBefore(events, first, then) ==
    \A i \in Positions(events, first), j \in Positions(events, then) : i < j

ReportFunctions ==
    {"ebay_plot", "plot_profits", "median_plotting", "mean_plotting", "crpyto_comp_plotting",
     "brand_plot"}

(* C13, as specified: in a call of ebay_plot, plot_profits,                *)
(* median_plotting, mean_plotting, crpyto_comp_plotting or brand_plot,     *)
(* once the first image is written no aggregation (group-by, rolling       *)
(* average, running minimum) is performed.                                 *)
C13_ExportAfterComputation ==
    call.fn \in ReportFunctions =>
        \A i \in Positions(ret.events, {"savefig"}) :
            \A j \in Positions(ret.events, Aggregations) : j < i

(* C13, amended: in a call of ebay_plot, plot_profits or brand_plot no     *)
(* aggregation follows the writing of the image.  A call of                *)
(* median_plotting or mean_plotting that returns writes two images: the    *)
(* aggregations of its first chart come before the first image, those of   *)
(* its second chart between the first image and the second, and none       *)
(* after the second.  A call of crpyto_comp_plotting that returns writes   *)
(* one image, after the aggregations of its first chart, and aggregates    *)
(* again for its second chart, which is shown and not written.             *)
C13_ExportAfterItsChart ==
    /\ call.fn \in {"ebay_plot", "plot_profits", "brand_plot"} =>
          /\ AllBefore(ret.events, Aggregations, {"savefig"})
          /\ Cardinality(Positions(ret.events, {"savefig"})) = ret.images
          /\ ret.images <= 1
    /\ (call.fn \in {"median_plotting", "mean_plotting"} /\ ret.status = "ok") =>
          LET saved == Positions(ret.events, {"savefig"})
              first == CHOOSE i \in saved : \A j \in saved : i <= j
              last == CHOOSE i \in saved : \A j \in saved : j <= i
              agg == Positions(ret.events, Aggregations)
          IN  /\ Cardinality(saved) = 2
              /\ ret.images = 2
              /\ last = Len(ret.events)
              /\ Cardinality({j \in agg : j < first})
                    = Cardinality({j \in agg : first < j /\ j < last})
              /\ {j \in agg : j < first} # {}
    /\ (call.fn = "crpyto_comp_plotting" /\ ret.status = "ok") =>
          LET saved == Positions(ret.events, {"savefig"})
              agg == Positions(ret.events, Aggregations)
          IN  /\ Cardinality(saved) = 1
              /\ ret.images = 1
              /\ \E j \in agg : \A i \in saved : j < i
              /\ \E j \in agg : \A i \in saved : i < j

(* median_plotting of two frames with a rolling average: two images, and   *)
(* group-by, rolling average and running minimum between them              *)
C13_Witness ==
    /\ call.fn = "median_plotting"
    /\ ret.status = "ok"
    /\ Len(call.dfs) = 2
    /\ call.roll > 0
    /\ ret.events[8] = "groupby"
    /\ ret.events[9] = "rolling"
    /\ ret.events[10] = "min"
    /\ ret.events[7] = "savefig"
    /\ ret.events[14] = "savefig"

(* ebay_plot with a fitted trend: the fit is made, then the image written *)
C13_WitnessEbay ==
    /\ call.fn = "ebay_plot"
    /\ ret.status = "ok"
    /\ "polyfit" \in {ret.events[i] : i \in 1..Len(ret.events)}
    /\ ret.events[Len(ret.events)] = "savefig"

(* C15: a failure of the price feed ends crpyto_comp_plotting in the       *)
(* failure, with no image written: both lookups come before the image of   *)
(* the call; no other report looks the feed up or ends in that failure,    *)
(* whichever reports ran before it.                                        *)
C15_FeedFailureIsLocal ==
    /\ call.fn = "crpyto_comp_plotting" =>
          /\ AllBefore(ret.events, {"get_crypto_data"}, {"savefig"})
          /\ call.feed # "ok" =>
                /\ pc = "raised"
                /\ ret.status = "ExternalFeedFailure"
                /\ ret.images = 0
                /\ Positions(ret.events, {"savefig"}) = {}
          /\ ret.images > 0 =>
                Cardinality(Positions(ret.events, {"get_crypto_data"})) = 2
    /\ (call.fn # "crpyto_comp_plotting" /\ pc # "idle") =>
          /\ Positions(ret.events, {"get_crypto_data"}) = {}
          /\ ret.status # "ExternalFeedFailure"

(* the second lookup fails: the call ends without an image *)
C15_Witness ==
    /\ call.fn = "crpyto_comp_plotting"
    /\ call.feed = "btc_fails"
    /\ pc = "raised"
    /\ ret.images = 0
    /\ Cardinality(Positions(ret.events, {"get_crypto_data"})) = 2

(* the feed answers: an image is written after both lookups *)
C15_WitnessOk ==
    /\ call.fn = "crpyto_comp_plotting"
    /\ call.feed = "ok"
    /\ ret.images = 1
    /\ ret.events[Len(ret.events)] = "show"

(* C16, as specified: after any sequence of reports the plotting style     *)
(* and the display options of the process are as they were before it, and  *)
(* a report draws as it does in a new process whichever reports ran        *)
(* before it.                                                              *)
C16_NoLastingState ==
    /\ rc_style = "default"
    /\ display_max_columns = "default"
    /\ (pc # "idle" /\ call.fn # "ebay_plot") => ret.style = "default"

(* C18, as specified: in ebay_plot with MSRP > 0 the minimum break-even    *)
(* is at most the estimated break-even and both are > 0.                   *)
C18_BreakEvenOrder ==
    (call.fn = "ebay_plot" /\ call.msrp > 0 /\ ret.status = "ok") =>
        /\ call.e_vars.tax_rate >= 0
        /\ ret.estimated_shipping >= 0
        /\ ret.min_break_even <= ret.est_break_even
        /\ ret.min_break_even > 0
        /\ ret.est_break_even > 0

(* C18, amended: in ebay_plot with MSRP > 0 the minimum break-even is at   *)
(* most the estimated break-even and neither is negative; both are > 0     *)
(* when the MSRP is at least 0.2 of a unit, and the minimum break-even is  *)
(* 0 when the MSRP is 0.16 of a unit.                                      *)
C18_BreakEvenOrderFromFifth ==
    (call.fn = "ebay_plot" /\ call.msrp > 0 /\ ret.status = "ok") =>
        /\ call.e_vars.tax_rate >= 0
        /\ ret.estimated_shipping >= 0
        /\ ret.min_break_even <= ret.est_break_even
        /\ ret.min_break_even >= 0
        /\ call.msrp >= 2000 => (ret.min_break_even > 0 /\ ret.est_break_even > 0)
        /\ call.msrp = 1600 => ret.min_break_even = 0

(* an MSRP of 0.2 of a unit, no tax and free shipping: both thresholds are 1 *)
C18_Witness ==
    /\ call.fn = "ebay_plot"
    /\ ret.status = "ok"
    /\ call.msrp = 2000
    /\ call.e_vars.tax_rate = 0
    /\ ret.estimated_shipping = 0
    /\ ret.min_break_even = 1
    /\ ret.est_break_even = 1

(* an MSRP of 100 units: the estimate is well above the minimum *)
C18_WitnessUnits ==
    /\ call.fn = "ebay_plot"
    /\ ret.status = "ok"
    /\ call.msrp = Ticks(100)
    /\ ret.min_break_even = 102
    /\ ret.est_break_even > 102

====
